---- MODULE Spec2Model ----
(***************************************************************************)
(* Pagination engine of the text editor: the plugin state that tracks the  *)
(* splits the engine introduced, the reconciler (appendTransaction) that    *)
(* joins them again on a user edit, and the overflow pass (view.update)     *)
(* that splits an overflowing page.                                         *)
(*                                                                         *)
(* A document is kept as its token sequence: one token for the opening and *)
(* one for the closing of every page and paragraph, one per character.     *)
(* A document position is an index between two tokens, which is exactly    *)
(* the integer position the editing library uses.                          *)
(***************************************************************************)
EXTENDS Integers, Sequences, FiniteSets, TLC

\* ------------------------------------------------------------------ bounds
MaxLines == 4          \* lines (characters and empty paragraphs) the user fills
MaxSettle == 6         \* the same, where the user only adds content
MaxPasses == 6         \* cap of the counter of overflow passes
Capacity == 2          \* lines a page holds before it overflows

\* the characters the user types: the engine never reads a character
Chars == {1}

\* ------------------------------------------------------------------ tokens
PageOpen == [k |-> "page", v |-> 0]
PageClose == [k |-> "/page", v |-> 0]
ParOpen(origin) == [k |-> "par", v |-> origin]
ParClose == [k |-> "/par", v |-> 0]
Text(c) == [k |-> "text", v |-> c]

\* the closing token of an opening token (of any other token: none)
CloseTok(t) ==
  IF t.k = "page" THEN PageClose ELSE IF t.k = "par" THEN ParClose ELSE [k |-> "none", v |-> 0]

IsOpen(t) == t.k \in {"page", "par"}
IsClose(t) == t.k \in {"/page", "/par"}
IsText(t) == t.k = "text"

Max(S) == CHOOSE x \in S : \A y \in S : y <= x
Min(S) == CHOOSE x \in S : \A y \in S : x <= y

\* ------------------------------------------------------- document queries
\* depth of position pos: the nodes open at pos. In this schema (doc = page+,
\* page = block+, paragraph = inline*) the token before pos decides it.
DepthAt(d, pos) ==
  IF pos = 0 THEN 0
  ELSE CASE d[pos].k = "page" -> 1
         [] d[pos].k = "par" -> 2
         [] d[pos].k = "text" -> 2
         [] d[pos].k = "/par" -> 1
         [] d[pos].k = "/page" -> 0

InRange(d, pos) == pos >= 0 /\ pos <= Len(d)

OpenKind(depth) == IF depth = 1 THEN "page" ELSE IF depth = 2 THEN "par" ELSE "text"
CloseKind(depth) == IF depth = 1 THEN "/page" ELSE "/par"

\* start and end of the content of the node of the given depth around pos
StartOf(d, pos, depth) ==
  IF depth = 0 THEN 0 ELSE Max({i \in 1..pos : d[i].k = OpenKind(depth)})
EndOf(d, pos, depth) ==
  IF depth = 0 THEN Len(d)
  ELSE Min({j \in (pos + 1)..Len(d) : d[j].k = CloseKind(depth)}) - 1

\* the resolved position, given its depth and its parent's extent
ResolvedPos(d, pos, depth, start, end) ==
  [pos |-> pos,
   depth |-> depth,
   parentOffset |-> pos - start,
   parentSize |-> end - start,
   parentType |-> IF depth = 0 THEN "doc" ELSE d[start].k,
   nodeAfter |-> IF pos < Len(d) /\ ~IsClose(d[pos + 1]) THEN d[pos + 1].k ELSE "null",
   nodeBefore |-> IF pos > 0 /\ ~IsOpen(d[pos]) THEN
                    (IF IsText(d[pos]) THEN "text" ELSE
                       IF d[pos].k = "/page" THEN "page" ELSE "par")
                  ELSE "null",
   index |-> Cardinality({i \in (start + 1)..pos : d[i].k = OpenKind(depth + 1)}),
   childCount |-> Cardinality({i \in (start + 1)..end : d[i].k = OpenKind(depth + 1)})]

\* doc.resolve(pos): depth, parentOffset, the parent's content size and type,
\* the kinds of the nodes directly before and after, index and childCount
Resolve(d, pos) ==
  ResolvedPos(d, pos, DepthAt(d, pos),
              StartOf(d, pos, DepthAt(d, pos)), EndOf(d, pos, DepthAt(d, pos)))

\* index of the closing token that matches the opening token at index i
CloseOf(d, i) == Min({j \in (i + 1)..Len(d) : d[j].k = CloseTok(d[i]).k})
\* index of the opening token that matches the closing token at index j
OpenOf(d, j) == Max({i \in 1..(j - 1) : CloseTok(d[i]).k = d[j].k})

\* content size of the node that opens at token i / closes at token j
SizeFrom(d, i) == CloseOf(d, i) - i - 1
SizeTo(d, j) == j - OpenOf(d, j) - 1

\* the schema: doc = page+, page = block+, paragraph = inline*
WellFormed(d) ==
  /\ Len(d) >= 4
  /\ \A i \in 1..Len(d) :
       LET prev == IF i = 1 THEN "doc" ELSE d[i - 1].k IN
       CASE d[i].k = "page" -> prev \in {"doc", "/page"}
         [] d[i].k = "/page" -> prev = "/par"
         [] d[i].k = "par" -> prev \in {"page", "/par"}
         [] d[i].k = "/par" -> prev \in {"par", "text"}
         [] d[i].k = "text" -> prev \in {"par", "text"}
  /\ d[Len(d)].k = "/page"

\* the text of the document, in document order
RECURSIVE TextOf(_)
TextOf(d) ==
  IF d = <<>> THEN <<>>
  ELSE (IF IsText(Head(d)) THEN <<Head(d).v>> ELSE <<>>) \o TextOf(Tail(d))

\* ------------------------------------------------- steps and their mapping
\* a replace step: the tokens of [from, to) are replaced by ins
Step(from, to, ins) == [from |-> from, to |-> to, ins |-> ins]

ApplyStep(d, s) == SubSeq(d, 1, s.from) \o s.ins \o SubSeq(d, s.to + 1, Len(d))

RECURSIVE ApplySteps(_, _)
ApplySteps(d, steps) ==
  IF steps = <<>> THEN d ELSE ApplySteps(ApplyStep(d, Head(steps)), Tail(steps))

\* StepMap.mapResult(pos).pos with the default association (to the right)
MapStep(s, pos) ==
  IF pos < s.from THEN pos
  ELSE IF pos <= s.to THEN
    s.from + (IF s.to # s.from /\ pos = s.from THEN 0 ELSE Len(s.ins))
  ELSE pos + Len(s.ins) - (s.to - s.from)

\* Mapping.mapResult(pos).pos: through every step, in order
RECURSIVE MapPos(_, _)
MapPos(steps, pos) ==
  IF steps = <<>> THEN pos ELSE MapPos(Tail(steps), MapStep(Head(steps), pos))

\* ---------------------------------------------- structure: split and join
\* index of the opening token of the ancestor of pos at depth level
AncestorOpen(d, pos, level) ==
  Max({i \in 1..pos : d[i].k = OpenKind(level)})

\* the tokens tr.split(pos, depth) inserts: the closings of the depth
\* innermost ancestors, then copies of their openings (with their attributes)
RECURSIVE SplitTokens(_, _, _, _)
SplitTokens(d, pos, level, n) ==
  IF n = 0 THEN <<>>
  ELSE <<CloseTok(d[AncestorOpen(d, pos, level)])>>
         \o SplitTokens(d, pos, level - 1, n - 1)
         \o <<d[AncestorOpen(d, pos, level)]>>

SplitStep(d, pos, depth) ==
  Step(pos, pos, SplitTokens(d, pos, DepthAt(d, pos), depth))

\* canSplit(doc, pos, depth): "true", "false", or "throw" where the library
\* reads the type of a node below the deepest one
CanSplitAt(r, depth) ==
  IF r.depth - depth < 0 THEN "false"
  ELSE IF r.parentType \in {"doc", "page"} /\ (r.index = 0 \/ r.index = r.childCount)
    THEN "false"
  ELSE IF depth = 0 THEN "throw"
  ELSE "true"

CanSplit(d, pos, depth) == CanSplitAt(Resolve(d, pos), depth)

\* canJoin(doc, pos): a closing token directly followed by an opening one
CanJoin(d, pos) ==
  /\ pos > 0 /\ pos < Len(d)
  /\ IsClose(d[pos]) /\ IsOpen(d[pos + 1])

\* tr.join(pos, depth): the step that removes depth closings and openings
JoinStep(pos, depth) == Step(pos - depth, pos + depth, <<>>)

\* a structure step applies only where it removes closings then openings
StructureOk(d, s) ==
  /\ s.from >= 0 /\ s.to <= Len(d)
  /\ \A i \in (s.from + 1)..s.to :
       /\ ~IsText(d[i])
       /\ IsOpen(d[i]) => \A j \in i..s.to : IsOpen(d[j])

\* ------------------------------------------------------------ transactions
\* meta: the value under the plugin key; pointer: the 'pointer' meta;
\* history: the 'addToHistory' meta (true unless set to false)
Tr(meta, pointer, history, steps) ==
  [some |-> TRUE, meta |-> meta, pointer |-> pointer, history |-> history, steps |-> steps]
\* "no transaction" (a handler that returns undefined)
NoTr == [some |-> FALSE, meta |-> "none", pointer |-> FALSE, history |-> TRUE, steps |-> <<>>]

\* all steps of a batch of transactions, in order
RECURSIVE StepsOf(_)
StepsOf(trs) == IF trs = <<>> THEN <<>> ELSE Head(trs).steps \o StepsOf(Tail(trs))

\* -------------------------------------------------------- pagination state
init == <<>>

\* a recording of one connection for every level from i to depth
NewConnectionsAll(d, splitPos, i, depth) ==
  [k \in 1..(depth - i + 1) |->
     [from |-> splitPos - (i + k - 1), to |-> splitPos + (i + k - 1)]]

\* the connections recorded for a split at splitPos of the given depth
RECURSIVE NewConnections(_, _, _, _)
NewConnections(d, splitPos, i, depth) ==
  IF i > depth THEN <<>>
  ELSE (IF Resolve(d, splitPos + i).nodeAfter \notin {"null", "text"}
          THEN <<[from |-> splitPos - i, to |-> splitPos + i]>> ELSE <<>>)
       \o NewConnections(d, splitPos, i + 1, depth)

\* a split recorded at the mapped position of the step itself
SplitAtMapped(d, r) ==
  [pos |-> r.pos, connections |-> NewConnections(d, r.pos - r.depth, 1, r.depth)]

\* the split appended for a transaction tagged 'split'
SplitAt(d, r) ==
  [pos |-> r.pos - r.depth, connections |-> NewConnections(d, r.pos - r.depth, 1, r.depth)]

NewSplit(tr, d) == SplitAt(d, Resolve(d, MapPos(tr.steps, tr.steps[1].from)))

KeepConnection(d, c) == Resolve(d, c.to).parentOffset = 0

\* a remapping that keeps every connection
RemapAll(tr, value, d) ==
  [i \in 1..Len(value) |->
     [pos |-> MapPos(tr.steps, value[i].pos),
      connections |-> [j \in 1..Len(value[i].connections) |->
                         [from |-> MapPos(tr.steps, value[i].connections[j].from),
                          to |-> MapPos(tr.steps, value[i].connections[j].to)]]]]

\* an apply that keeps the positions of the state it is given
RemapStale(tr, value, d) == value

\* the splits of the previous state, mapped through the transaction, with the
\* connections dropped whose end no longer starts its parent
Remap(tr, value, d) ==
  [i \in 1..Len(value) |->
     LET mapped == [j \in 1..Len(value[i].connections) |->
                      [from |-> MapPos(tr.steps, value[i].connections[j].from),
                       to |-> MapPos(tr.steps, value[i].connections[j].to)]]
     IN [pos |-> MapPos(tr.steps, value[i].pos),
         connections |-> SelectSeq(mapped, LAMBDA c : KeepConnection(d, c))]]

\* an apply that treats a transaction tagged 'join' as any other one
applyRemapOnly(tr, value, d) ==
  IF tr.meta = "split" THEN Append(Remap(tr, value, d), NewSplit(tr, d))
  ELSE Remap(tr, value, d)

\* state.apply(tr, value, prevState, state): d is the document of state
apply(tr, value, d) ==
  IF tr.meta = "join" THEN <<>>
  ELSE IF tr.meta = "split" THEN Append(Remap(tr, value, d), NewSplit(tr, d))
  ELSE Remap(tr, value, d)

\* --------------------------------------------------------- join reconciler
\* the joins of the connections of one split, appended to steps; d0 is the
\* document the transaction started from
\* whether the connection, mapped to from and to in the document cur that the
\* transaction has reached, is joined
JoinsConnection(cur, from, to) ==
  /\ from = to
  /\ CanJoin(cur, to)
  /\ SizeFrom(cur, to + 1) # 0
  /\ SizeTo(cur, to) # 0

\* a reconciler that joins no connection
JoinNoConnection(conns, d0, steps) == steps

RECURSIVE JoinConnections(_, _, _)
JoinConnections(conns, d0, steps) ==
  IF conns = <<>> THEN steps
  ELSE JoinConnections(Tail(conns), d0,
         IF JoinsConnection(ApplySteps(d0, steps),
                            MapPos(steps, Head(conns).from), MapPos(steps, Head(conns).to))
           THEN Append(steps, JoinStep(MapPos(steps, Head(conns).to), 1))
           ELSE steps)

\* a reconciler that joins at the mapped position of every tracked split
\* without asking canJoin
RECURSIVE JoinSplitsUnasked(_, _, _)
JoinSplitsUnasked(value, d0, steps) ==
  IF value = <<>> THEN steps
  ELSE JoinSplitsUnasked(Tail(value), d0,
         JoinConnections(Head(value).connections, d0,
                         Append(steps, JoinStep(MapPos(steps, Head(value).pos), 1))))

RECURSIVE JoinSplits(_, _, _)
JoinSplits(value, d0, steps) ==
  IF value = <<>> THEN steps
  ELSE JoinSplits(Tail(value), d0,
         IF CanJoin(ApplySteps(d0, steps), MapPos(steps, Head(value).pos))
           THEN JoinConnections(Head(value).connections, d0,
                                Append(steps, JoinStep(MapPos(steps, Head(value).pos), 1)))
           ELSE steps)

\* a reconciler that lets a transaction tagged by the engine through
appendTransactionTagBlind(transactions, d, value) ==
  IF Len(transactions) = 1 /\ transactions[1].pointer THEN NoTr
  ELSE IF StepsOf(transactions) = <<>> THEN NoTr
  ELSE Tr(IF value # <<>> THEN "join" ELSE "none", FALSE, value = <<>>,
          JoinSplits(value, d, <<>>))

\* a reconciler that tags its transaction only where it joins
appendTransactionTagJoins(transactions, d, value) ==
  IF Len(transactions) = 1 /\ (transactions[1].meta # "none" \/ transactions[1].pointer)
    THEN NoTr
  ELSE IF StepsOf(transactions) = <<>> THEN NoTr
  ELSE Tr(IF JoinSplits(value, d, <<>>) # <<>> THEN "join" ELSE "none", FALSE, value = <<>>,
          JoinSplits(value, d, <<>>))

\* a reconciler that does not ask whether the transactions have a step
appendTransactionStepBlind(transactions, d, value) ==
  IF Len(transactions) = 1 /\ (transactions[1].meta # "none" \/ transactions[1].pointer)
    THEN NoTr
  ELSE Tr(IF value # <<>> THEN "join" ELSE "none", FALSE, value = <<>>,
          JoinSplits(value, d, <<>>))

\* appendTransaction(transactions, prevState, state): d and value are the
\* document and the pagination state of state
appendTransaction(transactions, d, value) ==
  IF Len(transactions) = 1 /\ (transactions[1].meta # "none" \/ transactions[1].pointer)
    THEN NoTr
  ELSE IF StepsOf(transactions) = <<>> THEN NoTr
  ELSE Tr(IF value # <<>> THEN "join" ELSE "none", FALSE, value = <<>>,
          JoinSplits(value, d, <<>>))

\* ------------------------------------------------------ rendering (layout)
\* Every character and every empty paragraph takes one line of its page.
PageOpens(d) == {i \in 1..Len(d) : d[i].k = "page"}
ParOpens(d) == {i \in 1..Len(d) : d[i].k = "par"}

\* the positions at which the lines of the page opening at token i start
LinePositions(d, i) ==
  {j - 1 : j \in {j \in i..CloseOf(d, i) : IsText(d[j])}}
    \cup {j \in i..CloseOf(d, i) : d[j].k = "par" /\ d[j + 1].k = "/par"}

Lines(d) == Cardinality({j \in 1..Len(d) : IsText(d[j])})
              + Cardinality({j \in ParOpens(d) : d[j + 1].k = "/par"})

\* page.scrollHeight > page.clientHeight
Overflows(d, i) == Cardinality(LinePositions(d, i)) > Capacity

\* a probe just inside the top left corner of the page: its first line
PosAtCoordsTop(d, i) ==
  CHOOSE p \in LinePositions(d, i) : \A q \in LinePositions(d, i) : p <= q

\* view.posAtCoords just inside the bottom left corner of the page: the
\* start of the last line that is visible in the page
PosAtCoords(d, i) ==
  CHOOSE p \in LinePositions(d, i) :
    Cardinality({q \in LinePositions(d, i) : q < p}) = Capacity - 1

\* ------------------------------------------------------------ overflow pass
\* the position the splitter moves to from the resolved position r that the
\* view reports: out of a node it is at the very start or end of
TargetPos(r) ==
  IF r.parentOffset = 0 THEN r.pos - 1
  ELSE IF r.parentOffset = r.parentSize THEN r.pos + 1
  ELSE r.pos

SplitTarget(d, pos) == Resolve(d, TargetPos(Resolve(d, pos)))

\* a splitter that does not ask whether the position can be split
SplitUnasked(d, r) ==
  Tr("split", FALSE, FALSE, <<SplitStep(d, r.pos, r.depth)>>)

\* a splitter that leaves its transaction in the undo history
SplitInHistory(d, r) ==
  IF CanSplitAt(r, r.depth) = "true"
    THEN Tr("split", FALSE, TRUE, <<SplitStep(d, r.pos, r.depth)>>)
    ELSE NoTr

\* the split dispatched at the resolved position r, if it can be split there
SplitIfCan(d, r) ==
  IF CanSplitAt(r, r.depth) = "true"
    THEN Tr("split", FALSE, FALSE, <<SplitStep(d, r.pos, r.depth)>>)
    ELSE NoTr

\* what update does for one overflowing page, given the reported position:
\* the transaction it dispatches, if any
update(d, pos) == SplitIfCan(d, SplitTarget(d, pos))

\* -------------------------------------------------------------------- state
VARIABLES
  doc,      \* view.state.doc, as tokens
  splits,   \* the pagination state: PaginationState.splits
  anchor,   \* state.selection.$anchor.pos (0 where the engine never reads it)
  head,     \* state.selection.$head.pos (0 where the engine never reads it)
  made,     \* history: the page boundaries that engine splits created
  passes,   \* history: split edits dispatched since the last user edit
  last,     \* history: the last dispatch (its transactions, the state before)
  trial     \* history: an insertion that is split once and then removed

vars == <<doc, splits, anchor, head, made, passes, last, trial>>

\* EditorState.create: the document the schema fills in, one empty paragraph
EmptyDoc == <<PageOpen, ParOpen(0), ParClose, PageClose>>

\* the outcome of a dispatch: the state after tr (mid), the transaction the
\* reconciler appended, and the state after that one
Outcome(d1, v1, app, d2) ==
  [mid |-> d1, splitsMid |-> v1, appended |-> app,
   doc |-> d2, splits |-> IF app.some THEN apply(app, v1, d2) ELSE v1]

Appended(d1, v1, app) == Outcome(d1, v1, app, ApplySteps(d1, app.steps))

\* a reconciler run on the snapshot before the transaction
ApplyInnerStale(tr, d1, v1) == Appended(d1, v1, appendTransaction(<<tr>>, doc, v1))

\* the reconciler runs once, on the state that tr led to
ApplyInner(tr, d1, v1) == Appended(d1, v1, appendTransaction(<<tr>>, d1, v1))

ApplyTransaction(tr, value, d1) == ApplyInner(tr, d1, apply(tr, value, d1))

\* state.apply(tr) as the view's dispatchTransaction calls it: the plugin
\* state is applied, the reconciler is asked once for a transaction to append,
\* and that one is applied too
Dispatch(d, value, tr) == ApplyTransaction(tr, value, ApplySteps(d, tr.steps))

\* what becomes of the boundaries the engine made when a step is applied: a
\* boundary is the position between a page's closing and the next opening
MadeAfterStep(S, s) ==
  {IF s.to <= b - 1 THEN b + Len(s.ins) - (s.to - s.from) ELSE b :
     b \in {b \in S : s.to <= b - 1 \/ s.from >= b + 1}}

RECURSIVE MadeAfter(_, _)
MadeAfter(S, steps) ==
  IF steps = <<>> THEN S ELSE MadeAfter(MadeAfterStep(S, Head(steps)), Tail(steps))

\* the boundaries the engine made, in the state between the transaction
\* dispatched and the one the reconciler appends
MadeMid(kind, tr) ==
  IF kind = "split"
    THEN MadeAfter(made, tr.steps) \cup {tr.steps[1].from + Len(tr.steps[1].ins) \div 2}
    ELSE MadeAfter(made, tr.steps)

History(kind, tr, r) ==
  [kind |-> kind, tr |-> tr, appended |-> r.appended,
   before |-> doc, splitsBefore |-> splits,
   mid |-> r.mid, splitsMid |-> r.splitsMid, madeMid |-> MadeMid(kind, tr)]

\* the lines that do not fit in their page
Excess(d) ==
  Cardinality(UNION {{p \in LinePositions(d, i) :
                        Cardinality({q \in LinePositions(d, i) : q < p}) >= Capacity} :
                     i \in PageOpens(d)})

\* the insertion followed: none (phase 0); a character inserted at position
\* at into doc0, which had no tracked split and no overflow (1); split once
\* (2); the character removed again (3)
NoTrial == [phase |-> 0, doc0 |-> <<>>, at |-> 0]

TrialAfterEdit(kind, step) ==
  IF kind = "insert" /\ splits = <<>> /\ Excess(doc) = 0
    THEN [phase |-> 1, doc0 |-> doc, at |-> step.from]
  ELSE IF kind = "delete" /\ trial.phase = 2 /\ step = Step(trial.at, trial.at + 1, <<>>)
    THEN [trial EXCEPT !.phase = 3]
  ELSE NoTrial

TrialAfterSplit(step) ==
  IF trial.phase = 1
    THEN [trial EXCEPT !.phase = 2, !.at = MapStep(step, trial.at)]
    ELSE NoTrial

Init ==
  /\ trial = NoTrial
  /\ doc = EmptyDoc
  /\ splits = init
  /\ anchor = 0
  /\ head = 0
  /\ made = {}
  /\ passes = 0
  /\ last = [kind |-> "init", tr |-> NoTr, appended |-> NoTr,
             before |-> EmptyDoc, splitsBefore |-> init,
             mid |-> EmptyDoc, splitsMid |-> init, madeMid |-> {}]

\* the pages update dispatches nothing for, given what the view reports
Skipped(d, i) == IF Overflows(d, i) THEN ~update(d, PosAtCoords(d, i)).some ELSE TRUE

\* the engine has nothing to do: update dispatches nothing for any page. The
\* view calls update before it returns from a dispatch, so that the user acts
\* on such states only
Quiescent == \A i \in PageOpens(doc) : Skipped(doc, i)

\* a user edit: one transaction with one replace step
Edited(kind, tr, r) ==
  /\ doc' = r.doc
  /\ splits' = r.splits
  /\ made' = MadeAfter(MadeMid(kind, tr), r.appended.steps)
  /\ passes' = 0
  /\ last' = History(kind, tr, r)
  /\ trial' = TrialAfterEdit(kind, tr.steps[1])
  /\ UNCHANGED <<anchor, head>>

UserEdit(kind, step) ==
  \E tr \in {Tr("none", FALSE, TRUE, <<step>>)} :
    \E r \in {Dispatch(doc, splits, tr)} : Edited(kind, tr, r)

InParagraph(d, pos) == pos > 0 /\ pos < Len(d) /\ DepthAt(d, pos) = 2

\* typing a character, while the document has at most n lines
Insert(n) ==
  /\ Quiescent
  /\ \E pos \in 1..Len(doc), c \in Chars :
    /\ InParagraph(doc, pos)
    /\ \E step \in {Step(pos, pos, <<Text(c)>>)} :
         /\ Lines(ApplyStep(doc, step)) <= n
         /\ UserEdit("insert", step)

\* the step of Enter at the cursor pos: liftEmptyBlock splits the page before
\* an empty paragraph that is neither the first nor the last of its page;
\* splitBlock splits the paragraph at the cursor
EnterStep(d, pos) ==
  IF d[pos].k = "par" /\ d[pos + 1].k = "/par" /\ d[pos - 1].k = "/par" /\ d[pos + 2].k = "par"
    THEN Step(pos - 1, pos - 1, <<PageClose, PageOpen>>)
    ELSE SplitStep(d, pos, 1)

\* Enter at the cursor
Enter(n) ==
  /\ Quiescent
  /\ \E pos \in 1..Len(doc) :
    /\ InParagraph(doc, pos)
    /\ \E step \in {EnterStep(doc, pos)} :
         /\ Lines(ApplyStep(doc, step)) <= n
         /\ UserEdit("enter", step)

UserInsert == Insert(MaxLines)
UserEnter == Enter(MaxLines)

\* deleting text inside one paragraph
UserDelete ==
  /\ Quiescent
  /\ \E from \in 1..Len(doc), to \in 1..Len(doc) :
    /\ from < to
    /\ \A j \in (from + 1)..to : IsText(doc[j])
    /\ UserEdit("delete", Step(from, to, <<>>))

\* Backspace at the start of a paragraph (joinBackward): the paragraph is
\* joined to the one before it, or its page to the page before it
UserBackspace ==
  /\ Quiescent
  /\ \E pos \in 1..Len(doc) :
    /\ InParagraph(doc, pos)
    /\ Resolve(doc, pos).parentOffset = 0
    /\ \/ /\ CanJoin(doc, pos - 1)
          /\ UserEdit("backspace", JoinStep(pos - 1, 1))
       \/ /\ CanJoin(doc, pos - 2)
          /\ UserEdit("backspace", JoinStep(pos - 2, 1))

\* a click: a transaction that only sets the selection and the 'pointer' meta
Clicked(tr, r) ==
  /\ doc' = r.doc
  /\ splits' = r.splits
  /\ last' = History("pointer", tr, r)
  /\ trial' = NoTrial
  /\ UNCHANGED <<anchor, head, made, passes>>

Pointer ==
  /\ Quiescent
  /\ last.kind # "pointer"
  /\ \E tr \in {Tr("none", TRUE, TRUE, <<>>)} :
       \E r \in {Dispatch(doc, splits, tr)} : Clicked(tr, r)

\* the overflow pass after a render: the first overflowing page that can be
\* split is split (the dispatch renders again, and the pass starts over)
Paginated(tr, r) ==
  /\ doc' = r.doc
  /\ splits' = r.splits
  /\ made' = MadeAfter(MadeMid("split", tr), r.appended.steps)
  /\ passes' = IF passes < MaxPasses THEN passes + 1 ELSE passes
  /\ last' = History("split", tr, r)
  /\ trial' = TrialAfterSplit(tr.steps[1])
  /\ UNCHANGED <<anchor, head>>

Update ==
  \E i \in PageOpens(doc) :
    /\ ~Skipped(doc, i)
    /\ \A j \in PageOpens(doc) : j < i => Skipped(doc, j)
    /\ \E tr \in {update(doc, PosAtCoords(doc, i))} :
         \E r \in {Dispatch(doc, splits, tr)} : Paginated(tr, r)

Next == UserInsert \/ UserDelete \/ UserEnter \/ UserBackspace \/ Pointer \/ Update

Spec == Init /\ [][Next]_vars

\* the user only adds content, and the engine settles it
SettleInsert == Insert(MaxSettle)
SettleEnter == Enter(MaxSettle)
NextSettle == SettleInsert \/ SettleEnter \/ Update
SpecSettle == Init /\ [][NextSettle]_vars

\* ------------------------------------------------------------- the loop
\* a render is always followed by the overflow pass (view.update): weak
\* fairness of Update, which is enabled exactly where the engine is not at
\* rest and whose steps are the ones recorded as "split"
UpdateFair == ([]<>Quiescent) \/ ([]<><<last'.kind = "split">>_vars)
FairSpec == Spec /\ UpdateFair

\* an internal edit of the overflow pass: no reconciler edit answers it, and
\* fewer lines are left that do not fit in their page
ChainShrinks ==
  last.kind = "split" => ~last.appended.some /\ Excess(doc) < Excess(last.before)

\* C1: once user edits stop arriving, the chain of internal edits (the join
\* the reconciler appends to the user edit, then the splits of the overflow
\* passes) is finite, every internal edit lowering the number of lines that
\* do not fit and being answered by no reconciler edit, and it ends in a state
\* in which update dispatches nothing, so that the reconciler is handed
\* nothing either: either the user edits forever or the engine comes to rest
C1_FixedPoint ==
  /\ []ChainShrinks
  /\ ([]<><<last'.kind # "split">>_vars) \/ (<>[]Quiescent)

\* a chain of a join and two splits that followed one user edit has ended
C1_Witness ==
  /\ Quiescent
  /\ last.kind = "split"
  /\ passes >= 2
  /\ splits # <<>>

\* ------------------------------------------------------- overflow passes
\* depth of the document tree: doc, page, paragraph, text
DocDepth == 3

Companion == Tr("none", FALSE, TRUE, <<>>)

BatchInner(tr, d1, v1) == Appended(d1, v1, appendTransaction(<<tr, Companion>>, d1, v1))

DispatchBatch(d, value, tr) ==
  BatchInner(tr, ApplySteps(d, tr.steps),
             apply(Companion, apply(tr, value, ApplySteps(d, tr.steps)),
                   ApplySteps(d, tr.steps)))

\* the overflow pass, its split handed to the reconciler in a batch of two
BatchedUpdate ==
  \E i \in PageOpens(doc) :
    /\ ~Skipped(doc, i)
    /\ \A j \in PageOpens(doc) : j < i => Skipped(doc, j)
    /\ \E tr \in {update(doc, PosAtCoords(doc, i))} :
         \E r \in {DispatchBatch(doc, splits, tr)} : Paginated(tr, r)

\* a click, its transaction handed to the reconciler in a batch of two
BatchedPointer ==
  /\ Quiescent
  /\ last.kind # "pointer"
  /\ \E tr \in {Tr("none", TRUE, TRUE, <<>>)} :
       \E r \in {DispatchBatch(doc, splits, tr)} : Clicked(tr, r)

NextBatch ==
  UserInsert \/ UserDelete \/ UserEnter \/ Update \/ BatchedUpdate \/ BatchedPointer

SpecBatch == Init /\ [][NextBatch]_vars

\* C3: the reconciler appends nothing to an edit tagged 'split' or to a
\* pointer edit, in whatever batch it is handed it
C3_NoReaction == last.kind \in {"split", "pointer"} => ~last.appended.some

\* ------------------------------------------------- insert, split, remove
\* C4: a character inserted into a document without tracked splits, split
\* once by the overflow pass and then removed by the user leaves, after the
\* reconciler's join, the document it was inserted into (same content, same
\* tree) and an empty pagination state
C4_RoundTrip == trial.phase = 3 => doc = trial.doc0 /\ splits = <<>>

\* ------------------------------------------------------- tracked splits
\* every split of the pagination state value sits, in document d, between
\* the closing of a page and the opening of the next, at a boundary of S
TrackedAreMade(d, value, S) ==
  \A i \in 1..Len(value) :
    /\ value[i].pos \in S
    /\ CanJoin(d, value[i].pos)
    /\ d[value[i].pos].k = "/page"

\* the same, in the states that a complete dispatch leaves
C5_AfterDispatch == TrackedAreMade(doc, splits, made)

\* C5: in every state, that is in the state a dispatch leaves and in the
\* state between the transaction dispatched and the one the reconciler
\* appends, every tracked split sits at a page boundary that an engine split
\* made
C5_TrackedAreMade ==
  /\ TrackedAreMade(doc, splits, made)
  /\ TrackedAreMade(last.mid, last.splitsMid, last.madeMid)

\* ------------------------------------------------------------ origin tags
\* the origin tag of a paragraph's opening token (0: the attribute is null)
OriginOf(t) == t.v

\* the join step s, applied to document d, joins two pages, or two
\* paragraphs that carry the same origin tag
JoinRespectsOrigin(d, s) ==
  d[s.to].k = "par" =>
    /\ OriginOf(d[s.to]) # 0
    /\ OriginOf(d[OpenOf(d, s.from + 1)]) = OriginOf(d[s.to])

\* C6: no join of a transaction the reconciler appends joins two nodes whose
\* origin tags do not match or are both absent, pages excepted
C6_OriginGuard ==
  \A k \in 1..Len(last.appended.steps) :
    JoinRespectsOrigin(ApplySteps(last.mid, SubSeq(last.appended.steps, 1, k - 1)),
                       last.appended.steps[k])

\* ------------------------------------------------------ edits elsewhere
UserKinds == {"insert", "delete", "enter", "backspace"}

\* the split tracked at p before the last dispatch was left alone by the
\* transaction the reconciler appended: no join at it, its boundary still in
\* the document, and it is still tracked
Untouched(p) ==
  /\ \A k \in 1..Len(last.appended.steps) :
       last.appended.steps[k]
         # JoinStep(MapPos(SubSeq(last.appended.steps, 1, k - 1), p), 1)
  /\ CanJoin(doc, MapPos(last.appended.steps, p))
  /\ \E j \in 1..Len(splits) : splits[j].pos = MapPos(last.appended.steps, p)

\* C7: a user edit whose mapping leaves the position of a tracked split
\* unchanged leaves that split alone
C7_Frame ==
  \A i \in 1..Len(last.splitsBefore) :
    (/\ last.kind \in UserKinds
     /\ MapPos(last.tr.steps, last.splitsBefore[i].pos) = last.splitsBefore[i].pos)
      => Untouched(last.splitsBefore[i].pos)

\* ------------------------------------------- the engine of src/pagination.ts
\* This engine keeps no plugin state: it tags the paragraphs it splits with an
\* origin and joins every page again on each user edit.
CapacityB == 3         \* lines a page holds before it overflows
MaxLinesB == 6         \* lines the user fills
MaxReport == 4         \* the same, where the view may report any position

PageCount(d) == Cardinality(PageOpens(d))

\* page.scrollHeight > page.clientHeight
OverflowsB(d, i) == Cardinality(LinePositions(d, i)) > CapacityB

\* view.posAtCoords just inside the bottom left corner of the page
PosAtCoordsB(d, i) ==
  CHOOSE p \in LinePositions(d, i) :
    Cardinality({q \in LinePositions(d, i) : q < p}) = CapacityB - 1

\* the origins that paragraphs carry (0: none)
Origins(d) == {d[j].v : j \in ParOpens(d)}

\* uuid(): an origin that no paragraph carries
FreshOrigin(d) == Max(Origins(d) \cup {0}) + 1

\* Origins are only ever compared with each other and with null: they are
\* kept numbered in the order in which they first occur in the document.
FirstWith(d, o) == Min({j \in ParOpens(d) : d[j].v = o})
Rank(d, o) == Cardinality({p \in Origins(d) \ {0} : FirstWith(d, p) <= FirstWith(d, o)})
Renumbered(d) ==
  [j \in 1..Len(d) |->
     IF d[j].k = "par" /\ d[j].v # 0 THEN ParOpen(Rank(d, d[j].v)) ELSE d[j]]

\* node.content.size of the node after pos (a text node has no content)
ContentSizeAfter(d, pos) == IF IsOpen(d[pos + 1]) THEN SizeFrom(d, pos + 1) ELSE 0

\* splitAtPos and splitAtDepth, from the resolved position r that the view
\* reports and the content size of the node after it
SplitAtB(r, size) ==
  IF r.parentOffset = 0 THEN [pos |-> r.pos - 1, depth |-> r.depth - 1]
  ELSE IF r.parentOffset = size THEN [pos |-> r.pos + 1, depth |-> r.depth + 1]
  ELSE [pos |-> r.pos, depth |-> r.depth]

\* the opening token of the paragraph whose attrs are replaced by ones with a
\* fresh origin (0: a page is given the origin, which nothing reads)
TaggedB(d, r, size) ==
  IF r.parentOffset = 0 THEN (IF r.depth = 2 THEN r.pos ELSE 0)
  ELSE IF r.parentOffset = size THEN 0
  ELSE IF r.nodeAfter = "par" THEN r.pos + 1
  ELSE IF r.nodeAfter = "text" THEN StartOf(d, r.pos, 2)
  ELSE 0

TagB(d, j) == IF j = 0 THEN d ELSE [d EXCEPT ![j] = ParOpen(FreshOrigin(d))]

\* tr.split throws where it would leave a page without a block
SplitThrows(d, t) ==
  t.depth = 1 /\ (d[t.pos].k = "page" \/ d[t.pos + 1].k = "/page")

\* the outcome of update for one page: the document with the attrs replaced
\* in place, the transaction dispatched (none: the split threw)
SplitB(d, t) ==
  [doc |-> d,
   tr |-> IF SplitThrows(d, t) THEN NoTr
          ELSE Tr("split", FALSE, TRUE, <<SplitStep(d, t.pos, t.depth)>>),
   thrown |-> SplitThrows(d, t)]

updateAtB(d, r, size) ==
  IF r.nodeAfter = "null" THEN [doc |-> d, tr |-> NoTr, thrown |-> FALSE]
  ELSE SplitB(TagB(d, TaggedB(d, r, size)), SplitAtB(r, size))

\* what update does for one overflowing page, given the reported position
updateB(d, pos) == updateAtB(d, Resolve(d, pos), ContentSizeAfter(d, pos))

\* the depth of the join of the page that opens at token i with the page
\* before it: 2 where the paragraphs around the boundary share an origin
JoinDepthB(d, i) ==
  IF d[i + 1].v # 0 /\ d[i + 1].v = d[OpenOf(d, i - 2)].v THEN 2 ELSE 1

\* tr.join throws unless the step removes closings, then as many openings
JoinApplies(d, s) ==
  /\ s.from >= 0 /\ s.to <= Len(d)
  /\ \A j \in (s.from + 1)..s.to :
       IF 2 * (j - s.from) <= s.to - s.from THEN IsClose(d[j]) ELSE IsOpen(d[j])

\* state.doc.forEach: a join per page after the first, at the offset the page
\* has in state.doc (d), applied to the document the transaction has reached
RECURSIVE JoinPagesB(_, _, _, _)
JoinPagesB(d, i, cur, steps) ==
  IF i > Len(d) THEN [steps |-> steps, thrown |-> FALSE]
  ELSE IF d[i].k # "page" THEN JoinPagesB(d, i + 1, cur, steps)
  ELSE IF JoinApplies(cur, JoinStep(i - 1, JoinDepthB(d, i)))
    THEN JoinPagesB(d, i + 1, ApplyStep(cur, JoinStep(i - 1, JoinDepthB(d, i))),
                    Append(steps, JoinStep(i - 1, JoinDepthB(d, i))))
  ELSE [steps |-> steps, thrown |-> TRUE]

JoinedB(j) == [tr |-> Tr("join", FALSE, TRUE, j.steps), thrown |-> j.thrown]

\* the page-removal case without the test of the content on both sides
RemovedPageCollapse(d, joinPos) ==
  IF ~CanJoin(d, joinPos) THEN <<>>
  ELSE <<JoinStep(joinPos, 1),
         Step(MapStep(JoinStep(joinPos, 1), joinPos) - 1,
              MapStep(JoinStep(joinPos, 1), joinPos), <<>>)>>

\* a page was removed: the join before the anchor and, where both sides of it
\* have content, the replace of the position before the join point
RemovedPageB(d, joinPos) ==
  IF ~CanJoin(d, joinPos) THEN <<>>
  ELSE IF SizeFrom(d, joinPos + 1) > 0 /\ SizeTo(d, joinPos) > 0
    THEN <<JoinStep(joinPos, 1),
           Step(MapStep(JoinStep(joinPos, 1), joinPos) - 1,
                MapStep(JoinStep(joinPos, 1), joinPos), <<>>)>>
  ELSE <<JoinStep(joinPos, 1)>>

\* appendTransaction(transactions, prevState, state): prev and d are the
\* documents of prevState and state, anchorPos is state.selection.$anchor.pos
appendTransactionB(transactions, prev, d, anchorPos) ==
  IF transactions[1].meta = "split" THEN [tr |-> NoTr, thrown |-> FALSE]
  ELSE IF PageCount(d) < PageCount(prev)
    THEN [tr |-> Tr("join", FALSE, TRUE, RemovedPageB(d, anchorPos - 1)), thrown |-> FALSE]
  ELSE IF \E k \in 1..Len(transactions) : transactions[k].meta = "none"
    THEN JoinedB(JoinPagesB(d, 2, d, <<>>))
  ELSE [tr |-> NoTr, thrown |-> FALSE]

\* the outcome of a dispatch: the state after tr (mid, with the selection a1,
\* h1), the transaction appended, and the state after that one
OutcomeB(d1, a1, h1, app) ==
  [mid |-> d1, appended |-> app.tr, thrown |-> app.thrown,
   doc |-> ApplySteps(d1, app.tr.steps),
   anchor |-> MapPos(app.tr.steps, a1), head |-> MapPos(app.tr.steps, h1)]

ApplyInnerB(tr, d, d1, a1, h1) ==
  OutcomeB(d1, a1, h1, appendTransactionB(<<tr>>, d, d1, a1))

\* state.apply(tr) of the view's dispatchTransaction; a1 and h1 are the
\* selection of tr
DispatchB(d, tr, a1, h1) == ApplyInnerB(tr, d, ApplySteps(d, tr.steps), a1, h1)

HistoryB(kind, tr, r) ==
  [kind |-> kind, tr |-> tr, appended |-> r.appended,
   before |-> doc, splitsBefore |-> init,
   mid |-> r.mid, splitsMid |-> init, madeMid |-> {}]

\* EditorState.create: the cursor is in the empty paragraph
InitB ==
  /\ trial = NoTrial
  /\ doc = EmptyDoc
  /\ splits = init
  /\ anchor = 2
  /\ head = 2
  /\ made = {}
  /\ passes = 0
  /\ last = [kind |-> "init", tr |-> NoTr, appended |-> NoTr,
             before |-> EmptyDoc, splitsBefore |-> init,
             mid |-> EmptyDoc, splitsMid |-> init, madeMid |-> {}]

SkippedB(d, i) ==
  IF OverflowsB(d, i) THEN ~updateB(d, PosAtCoordsB(d, i)).tr.some ELSE TRUE

\* update dispatches nothing for any page
QuiescentB == \A i \in PageOpens(doc) : SkippedB(doc, i)

\* a dispatch that throws leaves the state of the view as it was
EditedB(kind, tr, r) ==
  /\ ~r.thrown
  /\ doc' = Renumbered(r.doc)
  /\ anchor' = r.anchor
  /\ head' = r.head
  /\ last' = HistoryB(kind, tr, r)
  /\ UNCHANGED <<splits, made, passes, trial>>

\* a user edit with one step, which leaves the cursor at position cursor
UserEditB(kind, step, cursor) ==
  \E tr \in {Tr("none", FALSE, TRUE, <<step>>)} :
    \E r \in {DispatchB(doc, tr, cursor, cursor)} : EditedB(kind, tr, r)

\* typing a character at the cursor
InsertB(n) ==
  /\ QuiescentB
  /\ anchor = head
  /\ \E c \in Chars :
       \E step \in {Step(anchor, anchor, <<Text(c)>>)} :
         /\ Lines(ApplyStep(doc, step)) <= n
         /\ UserEditB("insert", step, anchor + 1)

\* the step of Enter with the cursor pos at the end of its paragraph:
\* liftEmptyBlock splits the page before an empty paragraph that is neither
\* the first nor the last of its page; splitBlock adds a paragraph without
\* origin after the paragraph
EnterStepB(d, pos) ==
  IF d[pos].k = "par" /\ d[pos - 1].k = "/par" /\ d[pos + 2].k = "par"
    THEN Step(pos - 1, pos - 1, <<PageClose, PageOpen>>)
    ELSE Step(pos, pos, <<ParClose, ParOpen(0)>>)

\* Enter at the end of a paragraph
EnterB(n) ==
  /\ QuiescentB
  /\ anchor = head
  /\ doc[anchor + 1].k = "/par"
  /\ \E step \in {EnterStepB(doc, anchor)} :
       /\ Lines(ApplyStep(doc, step)) <= n
       /\ UserEditB("enter", step, anchor + 2)

\* the steps of deleting the selection from..to: the tokens between the two
\* positions are removed; where from starts a paragraph and to is inside a
\* later one, the library may keep the attrs of the later paragraph instead
DeleteSteps(d, from, to) ==
  {Step(from, to, <<>>)} \cup
    (IF d[from].k = "par" /\ to > CloseOf(d, from) /\ d[to + 1].k # "/par"
       THEN {Step(from - 1, to, <<d[StartOf(d, to, 2)]>>)}
       ELSE {})

\* deleting the selection
DeleteB ==
  /\ QuiescentB
  /\ anchor < head
  /\ \E step \in DeleteSteps(doc, anchor, head) : UserEditB("delete", step, anchor)

\* selecting, from the start of a paragraph that is not the first of its
\* page to the start of a later paragraph: a transaction without steps
SelectB ==
  /\ QuiescentB
  /\ anchor = head
  /\ \E from \in 1..Len(doc), to \in 1..Len(doc) :
       /\ from < to
       /\ doc[from].k = "par"
       /\ doc[from - 1].k = "/par"
       /\ doc[to].k = "par"
       /\ \E tr \in {Tr("none", TRUE, TRUE, <<>>)} :
            \E r \in {DispatchB(doc, tr, from, to)} : EditedB("select", tr, r)

\* the overflow pass: the first overflowing page for which update dispatches
\* a split
PaginatedB(u, r) ==
  /\ doc' = Renumbered(r.doc)
  /\ anchor' = r.anchor
  /\ head' = r.head
  /\ last' = [HistoryB("split", u.tr, r) EXCEPT !.before = u.doc]
  /\ UNCHANGED <<splits, made, passes, trial>>

UpdatedB(u) ==
  \E r \in {DispatchB(u.doc, u.tr, MapPos(u.tr.steps, anchor), MapPos(u.tr.steps, head))} :
    PaginatedB(u, r)

UpdateB ==
  \E i \in PageOpens(doc) :
    /\ ~SkippedB(doc, i)
    /\ \A j \in PageOpens(doc) : j < i => SkippedB(doc, j)
    /\ \E u \in {updateB(doc, PosAtCoordsB(doc, i))} : UpdatedB(u)

UserInsertB == InsertB(MaxLinesB)
UserEnterB == EnterB(MaxLinesB)
NextB == UserInsertB \/ UserEnterB \/ SelectB \/ DeleteB \/ UpdateB
SpecB == InitB /\ [][NextB]_vars

\* the view reports any position of an overflowing page: update tags a
\* paragraph and dispatches a split, or throws after the tagging, or skips
ReportedB(u) ==
  IF u.tr.some THEN UpdatedB(u)
  ELSE /\ doc' = Renumbered(u.doc)
       /\ last' = [kind |-> IF u.thrown THEN "throw" ELSE "skip",
                   tr |-> NoTr, appended |-> NoTr,
                   before |-> doc, splitsBefore |-> init,
                   mid |-> u.doc, splitsMid |-> init, madeMid |-> {}]
       /\ UNCHANGED <<splits, anchor, head, made, passes, trial>>

ReportB ==
  \E i \in PageOpens(doc) :
    /\ OverflowsB(doc, i)
    /\ \E pos \in i..(CloseOf(doc, i) - 1) :
         \E u \in {updateB(doc, pos)} : ReportedB(u)

ReportInsert == InsertB(MaxReport)
ReportEnter == EnterB(MaxReport)
NextReportB == ReportInsert \/ ReportEnter \/ ReportB
SpecReportB == InitB /\ [][NextReportB]_vars

\* ------------------------------------------------------- empty fragments
\* C8: after a split that update dispatched, whatever position of the page
\* the view reported, none of the nodes that the split closed and none of
\* the nodes that it opened, at any level of the split, has zero content
C8_NoEmptyFragment ==
  (last.kind = "split" /\ last.tr.some) =>
    \A j \in (last.tr.steps[1].from + 1)..(last.tr.steps[1].from + Len(last.tr.steps[1].ins)) :
      /\ IsClose(doc[j]) => SizeTo(doc, j) > 0
      /\ IsOpen(doc[j]) => SizeFrom(doc, j) > 0

\* ------------------------------------------------------- a page removed
\* the last dispatch was a user deletion whose step removed a whole page, so
\* that the document had fewer pages when the reconciler was called
RemovedPage ==
  /\ last.kind = "delete"
  /\ PageCount(last.mid) < PageCount(last.before)
  /\ \E i \in PageOpens(last.before) :
       /\ last.tr.steps[1].from < i
       /\ CloseOf(last.before, i) <= last.tr.steps[1].to

\* C9: after a user edit that deletes all content of a page, so that the page
\* count drops, the document holds the text that the user's edit left (the
\* text before the edit minus what the user deleted), nothing duplicated and
\* nothing else lost, in one page less
C9_NoLoss ==
  RemovedPage =>
    /\ TextOf(doc) = TextOf(last.mid)
    /\ PageCount(doc) < PageCount(last.before)

\* ------------------------------------------------------- the reset on join
\* C10: apply returns the empty split list for a transaction tagged 'join',
\* whatever splits and connections the state it is applied to tracks, and
\* init is the empty split list
C10_JoinResets ==
  /\ init = <<>>
  /\ last.kind = "init" => splits = init
  /\ (last.appended.some /\ last.appended.meta = "join") =>
       /\ apply(last.appended, last.splitsMid, doc) = <<>>
       /\ splits = <<>>

\* a transaction tagged 'join' was applied to a state that tracked two
\* splits, one of them with a connection
C10_Witness ==
  /\ last.appended.some
  /\ last.appended.meta = "join"
  /\ Len(last.splitsMid) >= 2
  /\ \E i \in 1..Len(last.splitsMid) : last.splitsMid[i].connections # <<>>
  /\ splits = <<>>

\* ------------------------------------------------- the reconciler, twice
\* the reconciler run once more on the transaction of the last dispatch, in
\* the state that its first run left
SecondRun == appendTransaction(<<last.tr>>, doc, splits)

\* C11: after a user edit and the transaction that the reconciler appended to
\* it, a second run of the reconciler on the same edit has no step (no join),
\* and applying what it returns leaves document and pagination state as the
\* first run left them
C11_Idempotent ==
  (last.kind \in UserKinds /\ last.appended.some) =>
    /\ SecondRun.steps = <<>>
    /\ ApplySteps(doc, SecondRun.steps) = doc
    /\ SecondRun.some => apply(SecondRun, splits, doc) = splits

\* the first run joined a split and one of its connections
C11_Witness ==
  /\ last.kind \in UserKinds
  /\ last.appended.some
  /\ Len(last.appended.steps) >= 2
  /\ last.splitsMid # <<>>

\* ------------------------------------------- no position at the coordinates
\* view.posAtCoords returned null
NoPos == -1

\* what update does for one overflowing page, given what posAtCoords
\* returned: with no position it throws, and the error ends the pass
updateReported(d, report) ==
  IF report = NoPos
    THEN [tr |-> NoTr, thrown |-> TRUE]
    ELSE [tr |-> update(d, report), thrown |-> FALSE]

\* the pass ended by the error at the page opening at token i
Thrown(i, u) ==
  /\ u.thrown
  /\ last' = [kind |-> "nopos", tr |-> u.tr, appended |-> NoTr,
              before |-> doc, splitsBefore |-> splits,
              mid |-> doc, splitsMid |-> splits, madeMid |-> made,
              thrown |-> u.thrown, at |-> i]
  /\ UNCHANGED <<doc, splits, anchor, head, made, passes, trial>>

\* an overflow pass in which the view has no position for the first
\* overflowing page that the pass does not skip for another reason
NoPosition ==
  /\ last.kind # "nopos"
  /\ \E i \in PageOpens(doc) :
       /\ Overflows(doc, i)
       /\ \A j \in PageOpens(doc) : j < i => Skipped(doc, j)
       /\ \E u \in {updateReported(doc, NoPos)} : Thrown(i, u)

\* the error left the render of the last state unpaginated: the user types on
InsertUnpaginated ==
  /\ last.kind = "nopos"
  /\ \E pos \in 1..Len(doc), c \in Chars :
       /\ InParagraph(doc, pos)
       /\ \E step \in {Step(pos, pos, <<Text(c)>>)} :
            /\ Lines(ApplyStep(doc, step)) <= MaxLines
            /\ UserEdit("insert", step)

NextNoPos == UserInsert \/ UserEnter \/ InsertUnpaginated \/ NoPosition \/ Update
SpecNoPos == Init /\ [][NextNoPos]_vars

\* C12: a pass in which the view had no position for an overflowing page
\* raises no error, dispatches nothing for that page, and leaves no later
\* page of the document both overflowing and splittable
C12_SkipsNoPosition ==
  last.kind = "nopos" =>
    /\ ~last.thrown
    /\ doc = last.before
    /\ \A k \in PageOpens(doc) : k > last.at => Skipped(doc, k)

\* ------------------------------------------------------ illegal split points
\* the depth of the split that the step s makes
SplitDepth(s) == Len(s.ins) \div 2

\* canSplit at the position the splitter moves to from the reported one
CanSplitTarget(r) == CanSplitAt(r, r.depth)

\* update dispatched nothing for the page at the reported position pos
NotSplit(pos) ==
  /\ last' = [kind |-> "skip", tr |-> NoTr, appended |-> NoTr,
              before |-> doc, splitsBefore |-> splits,
              mid |-> doc, splitsMid |-> splits, madeMid |-> made,
              at |-> pos, can |-> CanSplitTarget(SplitTarget(doc, pos))]
  /\ UNCHANGED <<doc, splits, anchor, head, made, passes, trial>>

\* the outcome of update for one page, whatever position the view reported
Reported(pos, tr) ==
  IF tr.some
    THEN \E r \in {Dispatch(doc, splits, tr)} : Paginated(tr, r)
    ELSE NotSplit(pos)

\* the view reports any position of an overflowing page
Report ==
  /\ last.kind # "skip"
  /\ \E i \in PageOpens(doc) :
       /\ Overflows(doc, i)
       /\ \E pos \in i..(CloseOf(doc, i) - 1) :
            \E tr \in {update(doc, pos)} : Reported(pos, tr)

NextReport == UserInsert \/ UserEnter \/ Report
SpecReport == Init /\ [][NextReport]_vars

\* C13: every split that the overflow pass dispatched was at a position and
\* depth where canSplit answers true, and a pass that did not split left
\* document and pagination state as they were
C13_NoIllegalSplit ==
  /\ last.kind = "split" =>
       CanSplit(last.before, last.tr.steps[1].from, SplitDepth(last.tr.steps[1])) = "true"
  /\ last.kind = "skip" => doc = last.before /\ splits = last.splitsBefore

\* the page overflowed, canSplit answered false, and nothing was dispatched
C13_Witness ==
  /\ last.kind = "skip"
  /\ last.can = "false"
  /\ \E i \in PageOpens(doc) :
       /\ Overflows(doc, i)
       /\ last.at \in i..(CloseOf(doc, i) - 1)
  /\ doc = last.before

\* ------------------------------------------------- splits that are not joined
\* deleting a selection that starts after some text of a paragraph and ends
\* inside a paragraph of a later page: one step that removes the range
UserCut ==
  /\ Quiescent
  /\ \E from \in 1..Len(doc), to \in 1..Len(doc) :
       /\ from < to
       /\ InParagraph(doc, from) /\ InParagraph(doc, to)
       /\ IsText(doc[from])
       /\ \E j \in (from + 1)..to : doc[j].k = "page"
       /\ UserEdit("delete", Step(from, to, <<>>))

NextCut == UserInsert \/ UserEnter \/ UserCut \/ Update
SpecCut == Init /\ [][NextCut]_vars

\* the tracked splits that the reconciler does not join: those whose mapped
\* position is no place to join when their turn comes
RECURSIVE UnjoinedSplits(_, _, _)
UnjoinedSplits(value, d0, steps) ==
  IF value = <<>> THEN <<>>
  ELSE IF CanJoin(ApplySteps(d0, steps), MapPos(steps, Head(value).pos))
    THEN UnjoinedSplits(Tail(value), d0,
           JoinConnections(Head(value).connections, d0,
                           Append(steps, JoinStep(MapPos(steps, Head(value).pos), 1))))
    ELSE <<Head(value)>> \o UnjoinedSplits(Tail(value), d0, steps)

\* C14: after a user edit, every tracked split that the reconciler could not
\* join is still tracked, at its position mapped through the appended steps
C14_UnjoinedStaysTracked ==
  (last.kind \in UserKinds /\ last.appended.some) =>
    \A k \in DOMAIN UnjoinedSplits(last.splitsMid, last.mid, <<>>) :
      \E j \in DOMAIN splits :
        splits[j].pos =
          MapPos(last.appended.steps, UnjoinedSplits(last.splitsMid, last.mid, <<>>)[k].pos)

\* ------------------------------------------------------- deleted positions
\* StepMap.mapResult(pos).deleted with the default association: the step
\* replaces a range that pos lies in, and pos is not the end of the range
DeletedStep(s, pos) == s.from <= pos /\ pos < s.to

\* Mapping.mapResult(pos).deleted: some step deletes the position that pos
\* has been mapped to by the steps before it
RECURSIVE Deleted(_, _)
Deleted(steps, pos) ==
  IF steps = <<>> THEN FALSE
  ELSE IF DeletedStep(Head(steps), pos) THEN TRUE
  ELSE Deleted(Tail(steps), MapStep(Head(steps), pos))

\* the splits of value whose position the steps do not delete
Surviving(steps, value) == SelectSeq(value, LAMBDA s : ~Deleted(steps, s.pos))

\* C15: the pagination state that apply returns for a user edit tracks no
\* split whose position the edit deleted: it has as many splits as the
\* previous state had at positions that the edit kept
C15_DeletedRemoved ==
  last.kind \in UserKinds =>
    Len(last.splitsMid) = Len(Surviving(last.tr.steps, last.splitsBefore))

\* ------------------------------------------- the objects of pagination state
\* The PaginationState objects that exist, in the order of their creation, as
\* the split lists they hold: heap[ref] is what the object ref reads as.

\* an apply that writes the new split list into the object it was given
applyInPlace(tr, heap, ref, d) ==
  Append([heap EXCEPT ![ref] = apply(tr, heap[ref], d)], apply(tr, heap[ref], d))

\* apply on the object ref: splits.map, connections.filter, the spread and
\* new PaginationState build new arrays and objects, and nothing is assigned
\* to the object given or to what it holds
applyNew(tr, heap, ref, d) == Append(heap, apply(tr, heap[ref], d))

\* the objects after the reconciler's transaction, if it appended one
HeapAppended(heap) ==
  IF last.appended.some THEN applyNew(last.appended, heap, 2, doc) ELSE heap

\* the objects after the last dispatch: the state before it is object 1
HeapOfLast == HeapAppended(applyNew(last.tr, <<last.splitsBefore>>, 1, last.mid))

Dispatched == UserKinds \cup {"split", "pointer"}

BuiltOnBefore ==
  \E i \in PageOpens(last.before) :
    /\ Overflows(last.before, i)
    /\ last.tr = update(last.before, PosAtCoords(last.before, i))

InHistory(tr) == tr.history

\* the reconciler ran because the dispatched transaction removed a page
PageRemovalCase ==
  /\ last.kind \notin {"init", "split", "skip", "throw"}
  /\ last.appended.some
  /\ PageCount(last.mid) < PageCount(last.before)

\* C18: the transaction appended when a page was removed is tagged 'join'
\* and is in the undo history; the splits of the overflow pass and the joins
\* appended in the general case are not
C18_HistoryPolicy ==
  /\ PageRemovalCase => last.appended.meta = "join" /\ InHistory(last.appended)
  /\ (last.kind = "split" /\ last.tr.some) => ~InHistory(last.tr)
  /\ (last.appended.some /\ last.appended.steps # <<>> /\ ~PageRemovalCase) =>
       ~InHistory(last.appended)

\* ------------------------------------------------------ snapshots in place
\* C19: the snapshot that a split of the overflow pass is dispatched on is
\* the snapshot as it was observed before the pass: the pass has changed no
\* node of it (no attrs of it) in place
C19_SnapshotUnchanged ==
  [][last'.kind = "split" => last'.before = doc]_vars

\* ------------------------------------------------------- remapping by apply
\* the images of the connections conns under the steps, in their order
Images(steps, conns) ==
  [j \in 1..Len(conns) |->
     [from |-> MapPos(steps, conns[j].from), to |-> MapPos(steps, conns[j].to)]]

\* the splits tracked before the last dispatch are, in the state that apply
\* returned for its transaction, at the same indices and at the images of
\* their positions, and the transaction added one split if it was tagged
\* 'split' and none otherwise
SplitsRemapped ==
  /\ Len(last.splitsMid) = Len(last.splitsBefore) + (IF last.kind = "split" THEN 1 ELSE 0)
  /\ \A i \in DOMAIN last.splitsBefore :
       last.splitsMid[i].pos = MapPos(last.tr.steps, last.splitsBefore[i].pos)

\* C20 as stated: moreover every connection of every split is replaced by
\* its image
C20_AllRemapped ==
  last.kind \in Dispatched =>
    /\ SplitsRemapped
    /\ \A i \in DOMAIN last.splitsBefore :
         last.splitsMid[i].connections =
           Images(last.tr.steps, last.splitsBefore[i].connections)

\* C20, amended: the connections of a split are the images of its previous
\* connections, in their order, without those whose image of to is not at the
\* start of its parent in the new document
C20_RemappedAndFiltered ==
  last.kind \in Dispatched =>
    /\ SplitsRemapped
    /\ \A i \in DOMAIN last.splitsBefore :
         last.splitsMid[i].connections =
           SelectSeq(Images(last.tr.steps, last.splitsBefore[i].connections),
                     LAMBDA c : Resolve(last.mid, c.to).parentOffset = 0)

\* a user edit moved a tracked split, and apply dropped one of its connections
C20_Witness ==
  /\ last.kind \in UserKinds
  /\ \E i \in DOMAIN last.splitsBefore :
       /\ last.splitsMid[i].pos # last.splitsBefore[i].pos
       /\ Len(last.splitsMid[i].connections) < Len(last.splitsBefore[i].connections)

\* ------------------------------------------------ connections at a start
\* every connection tracked in value ends at offset 0 of its parent in d
ConnectionsAtStart(d, value) ==
  \A i \in DOMAIN value :
    \A j \in DOMAIN value[i].connections :
      Resolve(d, value[i].connections[j].to).parentOffset = 0

\* C21: in the pagination state that apply returned for the dispatched
\* transaction, and in the state after the dispatch, the end of every tracked
\* connection is at offset 0 of its parent in the document of that state
C21_ConnectionsAtStart ==
  /\ ConnectionsAtStart(last.mid, last.splitsMid)
  /\ ConnectionsAtStart(doc, splits)

\* a user edit moved a tracked split, and apply kept its connection, whose
\* end is still at the start of a page
C21_Witness ==
  /\ last.kind \in UserKinds
  /\ \E i \in DOMAIN last.splitsMid :
       /\ last.splitsMid[i].connections # <<>>
       /\ last.splitsMid[i].pos # last.splitsBefore[i].pos

\* ------------------------------------------------------ the split recorded
\* the split that the state tracks last
LastSplit == splits[Len(splits)]

\* C22: after a split(p, d) of the overflow pass, the state tracks one split
\* more than before, and the added one is at p + d, where the first page of
\* the two that the split made closes and the second one opens
C22_SplitAtJoinPoint ==
  last.kind = "split" =>
    /\ Len(splits) = Len(last.splitsBefore) + 1
    /\ LastSplit.pos = last.tr.steps[1].from + SplitDepth(last.tr.steps[1])
    /\ doc[LastSplit.pos].k = "/page"
    /\ doc[LastSplit.pos + 1].k = "page"

\* a split that divided a paragraph and its page, while another split was
\* tracked already
C22_Witness ==
  /\ last.kind = "split"
  /\ SplitDepth(last.tr.steps[1]) = 2
  /\ Len(splits) = 2

\* -------------------------------------------------- connections of a split
\* the levels of a split of the given depth, recorded at pos, at which a node
\* that is not text starts directly after the position pos + i
NodeLevels(d, pos, depth) == {i \in 1..depth : IsOpen(d[pos + i + 1])}

\* the connection of level i of a split at pos
ConnectionAt(pos, i) == [from |-> pos - i, to |-> pos + i]

\* C23: the split recorded for a split of depth d has exactly the connections
\* of the levels 1..d at which a non-text node follows, from the outermost
\* level inwards, each from pos - i to pos + i; so it has at most d of them,
\* and pos lies strictly between the ends of each
C23_ConnectionsPerLevel ==
  last.kind = "split" =>
    /\ Len(LastSplit.connections) <= SplitDepth(last.tr.steps[1])
    /\ {LastSplit.connections[j] : j \in DOMAIN LastSplit.connections} =
         {ConnectionAt(LastSplit.pos, i) :
            i \in NodeLevels(doc, LastSplit.pos, SplitDepth(last.tr.steps[1]))}
    /\ Len(LastSplit.connections) =
         Cardinality(NodeLevels(doc, LastSplit.pos, SplitDepth(last.tr.steps[1])))
    /\ \A j \in DOMAIN LastSplit.connections :
         /\ LastSplit.connections[j].from < LastSplit.pos
         /\ LastSplit.pos < LastSplit.connections[j].to

\* a split of depth 2 inside a paragraph: a paragraph follows at level 1
\* (one connection), text follows at level 2 (none)
C23_Witness ==
  /\ last.kind = "split"
  /\ SplitDepth(last.tr.steps[1]) = 2
  /\ Len(LastSplit.connections) = 1
  /\ IsText(doc[LastSplit.pos + 3])

\* ------------------------------------------------ where the splitter splits
\* the resolved position r is inside a page, or inside another container and
\* neither at its start nor at its end
InsideContainer(r) ==
  \/ r.parentType = "page"
  \/ r.parentOffset # 0 /\ r.parentOffset # r.parentSize

\* C24: the position of every split that the overflow pass dispatched is,
\* in the document it was dispatched on, neither at offset 0 nor at the end
\* of a container other than a page
C24_SplitInsideContainer ==
  (last.kind = "split" /\ last.tr.some) =>
    InsideContainer(Resolve(last.before, last.tr.steps[1].from))

\* ------------------------------------------------------- the walk outward
\* the opening token of the page that the position pos lies in
PageOf(d, pos) == Max({i \in PageOpens(d) : i <= pos})

\* the resolved position t is inside the page that the position pos is in
InPageOf(d, pos, t) ==
  /\ t.depth >= 1
  /\ PageOf(d, t.pos) = PageOf(d, pos)

\* C25: the position that the splitter moves to from the reported one is
\* inside the page of the reported position, whether or not a split followed
C25_WalkStaysInPage ==
  /\ last.kind = "skip" =>
       InPageOf(last.before, last.at, SplitTarget(last.before, last.at))
  /\ last.kind = "split" =>
       Resolve(last.before, last.tr.steps[1].from).depth >= 1

\* --------------------------------------------------- origins after a split
\* the split of the last dispatch divided a paragraph: the opening tokens of
\* its first and of its second fragment in the document after the split
FirstFragment == OpenOf(doc, last.tr.steps[1].from + 1)
SecondFragment == last.tr.steps[1].from + 4

\* C26: after a split of the overflow pass that divided a paragraph, the two
\* fragments of the paragraph carry the same origin, and it is not null
C26_FragmentsShareOrigin ==
  (last.kind = "split" /\ last.tr.some /\ SplitDepth(last.tr.steps[1]) = 2) =>
    /\ OriginOf(doc[FirstFragment]) = OriginOf(doc[SecondFragment])
    /\ OriginOf(doc[SecondFragment]) # 0

\* ---------------------------------------------------- tags of engine edits
\* the transaction appended by the reconciler joins something
JoinsSomething == last.appended.some /\ last.appended.steps # <<>>

\* C27: a split of the overflow pass is tagged 'split', is left out of the
\* undo history and has one step, the split of the document at its position
\* and depth; a transaction of the reconciler that joins is tagged 'join' and
\* is left out of the undo history
C27_TaggedAndExcluded ==
  /\ last.kind = "split" =>
       /\ last.tr.meta = "split"
       /\ ~InHistory(last.tr)
       /\ Len(last.tr.steps) = 1
       /\ last.tr.steps[1] =
            SplitStep(last.before, last.tr.steps[1].from, SplitDepth(last.tr.steps[1]))
  /\ JoinsSomething =>
       /\ last.appended.meta = "join"
       /\ ~InHistory(last.appended)

\* a user edit on a document that the pass had split, to which the reconciler
\* appended a transaction that joins
C27_Witness ==
  /\ last.kind \in UserKinds
  /\ JoinsSomething
  /\ last.appended.meta = "join"
  /\ made = {}

\* ------------------------------------------------ what the reconciler joins
\* the first k steps of the transaction that the reconciler appended, and the
\* document that they lead to from the state the reconciler saw
Prefix(k) == SubSeq(last.appended.steps, 1, k)
DocAt(k) == ApplySteps(last.mid, Prefix(k))

\* step k + 1 is the join at the image of the position pos of that state
JoinedAt(k, pos) ==
  /\ k < Len(last.appended.steps)
  /\ last.appended.steps[k + 1] = JoinStep(MapPos(Prefix(k), pos), 1)

\* the tracked split s is joined, or at some point of the transaction its
\* image is no legal join point
SplitHandled(s) ==
  \E k \in 0..Len(last.appended.steps) :
    JoinedAt(k, s.pos) \/ ~CanJoin(DocAt(k), MapPos(Prefix(k), s.pos))

\* the connection c of a split joined by step k0 + 1 is joined, or at some
\* point after that join its ends differ or its sides cannot be merged
ConnectionHandled(k0, c) ==
  \E k \in (k0 + 1)..Len(last.appended.steps) :
    \/ JoinedAt(k, c.to)
    \/ ~JoinsConnection(DocAt(k), MapPos(Prefix(k), c.from), MapPos(Prefix(k), c.to))

\* step k + 1 is a join at a legal join point that is the image of a tracked
\* split, or of a connection whose ends have the same image
JoinOfTracked(k) ==
  /\ CanJoin(DocAt(k), last.appended.steps[k + 1].from + 1)
  /\ \E i \in DOMAIN last.splitsMid :
       \/ JoinedAt(k, last.splitsMid[i].pos)
       \/ \E j \in DOMAIN last.splitsMid[i].connections :
            /\ JoinedAt(k, last.splitsMid[i].connections[j].to)
            /\ MapPos(Prefix(k), last.splitsMid[i].connections[j].from) =
                 MapPos(Prefix(k), last.splitsMid[i].connections[j].to)

\* C28: the transaction that the reconciler appends to a user edit joins
\* every tracked split whose image is a legal join point and, for a split
\* that it joined, every connection whose ends have the same image and whose
\* sides can be merged; each of its steps is such a join
C28_JoinsTracked ==
  (last.kind \in UserKinds /\ last.appended.some) =>
    /\ \A i \in DOMAIN last.splitsMid :
         /\ SplitHandled(last.splitsMid[i])
         /\ \A k0 \in 0..Len(last.appended.steps) :
              JoinedAt(k0, last.splitsMid[i].pos) =>
                \A j \in DOMAIN last.splitsMid[i].connections :
                  ConnectionHandled(k0, last.splitsMid[i].connections[j])
    /\ \A k \in 0..(Len(last.appended.steps) - 1) : JoinOfTracked(k)

\* the reconciler joined the pages at a tracked split and the paragraphs at
\* its connection
C28_Witness ==
  /\ last.kind \in UserKinds
  /\ Len(last.appended.steps) = 2
  /\ JoinedAt(0, last.splitsMid[1].pos)
  /\ JoinedAt(1, last.splitsMid[1].connections[1].to)

\* ----------------------------------------------------- nothing to undo
\* in the state that the reconciler saw no split is tracked, or no tracked
\* split is at a legal join point
NothingToUndo ==
  Len(UnjoinedSplits(last.splitsMid, last.mid, <<>>)) = Len(last.splitsMid)

\* C29: where nothing is to undo after a user edit, the reconciler appends no
\* transaction, and the pagination state is the one that apply returned for
\* the user edit
C29_NothingEmitted ==
  (last.kind \in UserKinds /\ NothingToUndo) =>
    /\ ~last.appended.some
    /\ splits = last.splitsMid

\* ------------------------------------------------- edits without a step
\* the selection moved by the keyboard: a transaction with no step and with
\* no meta of the pointer
Selected(tr, r) ==
  /\ doc' = r.doc
  /\ splits' = r.splits
  /\ last' = History("select", tr, r)
  /\ trial' = NoTrial
  /\ UNCHANGED <<anchor, head, made, passes>>

Select ==
  /\ Quiescent
  /\ last.kind # "select"
  /\ \E tr \in {Tr("none", FALSE, TRUE, <<>>)} :
       \E r \in {Dispatch(doc, splits, tr)} : Selected(tr, r)

NextSelect == UserInsert \/ UserDelete \/ UserEnter \/ UserBackspace \/ Select \/ Update
SpecSelect == Init /\ [][NextSelect]_vars

\* C30: for a transaction that has no step the reconciler appends nothing,
\* the document stays, and the pagination state is the one that apply
\* returned, the previous one remapped
C30_NoStepNoReaction ==
  last.kind = "select" =>
    /\ ~last.appended.some
    /\ doc = last.before
    /\ splits = last.splitsMid
    /\ last.splitsMid = Remap(last.tr, last.splitsBefore, last.mid)

\* the selection moved while a split was tracked, and the split stays tracked
C30_Witness ==
  /\ last.kind = "select"
  /\ last.splitsBefore # <<>>
  /\ splits = last.splitsBefore

\* ------------------------------------------------- the page-removal case
\* deleting a selection that starts after some text of a paragraph and ends
\* inside a paragraph of a later page; the cursor is left where it started
CutB ==
  /\ QuiescentB
  /\ anchor = head
  /\ \E from \in 1..Len(doc), to \in 1..Len(doc) :
       /\ from < to
       /\ InParagraph(doc, from) /\ InParagraph(doc, to)
       /\ IsText(doc[from])
       /\ \E j \in (from + 1)..to : doc[j].k = "page"
       /\ UserEditB("cut", Step(from, to, <<>>), from)

NextRemoveB == ReportInsert \/ ReportEnter \/ SelectB \/ DeleteB \/ CutB \/ UpdateB
SpecRemoveB == InitB /\ [][NextRemoveB]_vars

\* a user deletion left fewer pages
PageRemoved ==
  /\ last'.kind \in {"delete", "cut"}
  /\ PageCount(last'.mid) < PageCount(last'.before)

\* the anchor of the selection that the deletion leaves
RemovalAnchor == IF last'.kind = "cut" THEN last'.tr.steps[1].from ELSE anchor

\* both nodes around the position pos of d have content
BothNonEmpty(d, pos) == SizeFrom(d, pos + 1) > 0 /\ SizeTo(d, pos) > 0

\* what the page-removal case is to do at joinPos of the document d that the
\* edit left, as the steps of the transaction it returns
RemovalSteps(steps, d, joinPos) ==
  IF ~CanJoin(d, joinPos) THEN steps = <<>>
  ELSE /\ Len(steps) >= 1
       /\ steps[1] = JoinStep(joinPos, 1)
       /\ IF BothNonEmpty(d, joinPos)
            THEN /\ Len(steps) = 2
                 /\ steps[2] = Step(joinPos - 2, joinPos - 1, <<>>)
                 /\ IsText(ApplyStep(d, steps[1])[joinPos - 1])
            ELSE Len(steps) = 1

MaxOrigin == 2         \* origins that the paragraphs of these documents carry

DeepPars ==
  {<<ParOpen(o), ParClose>> : o \in 0..MaxOrigin}
    \cup {<<ParOpen(o), Text(1), ParClose>> : o \in 0..MaxOrigin}
DeepPage(content) == <<PageOpen>> \o content \o <<PageClose>>
DeepPages ==
  {DeepPage(p) : p \in DeepPars} \cup {DeepPage(p \o q) : p \in DeepPars, q \in DeepPars}
DeepDocs ==
  {a \o b : a \in DeepPages, b \in DeepPages}
    \cup {DeepPage(a) \o DeepPage(b) \o DeepPage(c) :
            a \in DeepPars, b \in DeepPars, c \in DeepPars}

\* the value of `let prevOrigin: string` before it is assigned, and of
\* attrs.origin of a node whose type declares no such attribute
Undefined == -1

\* node.attrs.origin of the node that opens at token node of d (0: the doc)
OriginAttr(d, node) ==
  IF node = 0 THEN Undefined
  ELSE IF d[node].k = "par" THEN d[node].v
  ELSE Undefined

\* the children that node.forEach visits, as the tokens at which they start,
\* in order: the pages of the doc, the blocks of a page, the one text node of
\* a paragraph that has text
ChildSet(d, node) ==
  IF node = 0 THEN PageOpens(d)
  ELSE IF d[node].k = "page" THEN {j \in ParOpens(d) : node < j /\ j < CloseOf(d, node)}
  ELSE IF d[node].k = "par" /\ IsText(d[node + 1]) THEN {node + 1}
  ELSE {}

\* the offset of the child into the content of node
ChildOffset(node, child) == child - 1 - node

\* joinDeep(node, tr, startPos, offset): d is the document that node is part
\* of, steps are the steps of tr; the value is the steps of tr afterwards.
\* joinDeepEach is the callback of node.forEach for the children from the
\* token `from` on, with the prevOrigin that the callbacks before it left.
RECURSIVE joinDeep(_, _, _, _, _)
RECURSIVE joinDeepEach(_, _, _, _, _, _, _)
RECURSIVE joinDeepAt(_, _, _, _, _, _, _, _)

joinDeep(d, node, steps, startPos, offset) ==
  joinDeepEach(d, node, steps, startPos, offset, node + 1, Undefined)

\* the callback for one child, position being the mapped position
joinDeepAt(d, node, steps, startPos, offset, child, prevOrigin, position) ==
  joinDeepEach(d, node,
    IF /\ CanJoin(ApplySteps(d, steps), position)
       /\ (d[child].k = "page" \/ prevOrigin = OriginAttr(d, node))
      THEN joinDeep(d, child, Append(steps, JoinStep(position, 1)),
                    0, ChildOffset(node, child) + offset)
      ELSE steps,
    startPos, offset, child + 1, OriginAttr(d, node))

joinDeepEach(d, node, steps, startPos, offset, from, prevOrigin) ==
  IF {c \in ChildSet(d, node) : c >= from} = {} THEN steps
  ELSE IF ChildOffset(node, Min({c \in ChildSet(d, node) : c >= from})) < startPos
    THEN joinDeepEach(d, node, steps, startPos, offset,
                      Min({c \in ChildSet(d, node) : c >= from}) + 1, prevOrigin)
  ELSE joinDeepAt(d, node, steps, startPos, offset,
                  Min({c \in ChildSet(d, node) : c >= from}), prevOrigin,
                  MapPos(steps, ChildOffset(node, Min({c \in ChildSet(d, node) : c >= from})) + offset))

InitDeep ==
  /\ trial = NoTrial
  /\ doc \in DeepDocs
  /\ splits = init
  /\ anchor = 2
  /\ head = 2
  /\ made = {}
  /\ passes = 0
  /\ last = [kind |-> "init", tr |-> NoTr, appended |-> NoTr,
             before |-> doc, splitsBefore |-> init,
             mid |-> doc, splitsMid |-> init, madeMid |-> {}]

\* _pagination.appendTransaction for an edit whose last change is in the
\* page that opens at token i, a page after the first: the transaction tagged
\* 'join' that joinDeep fills, applied to the document
DeepJoined(tr) ==
  /\ doc' = ApplySteps(doc, tr.steps)
  /\ last' = [kind |-> "joinDeep", tr |-> NoTr, appended |-> tr,
              before |-> doc, splitsBefore |-> init,
              mid |-> doc, splitsMid |-> init, madeMid |-> {}]
  /\ UNCHANGED <<splits, anchor, head, made, passes, trial>>

JoinDeep ==
  \E i \in PageOpens(doc) :
    /\ i > 1
    /\ \E tr \in {Tr("join", FALSE, TRUE, joinDeep(doc, 0, <<>>, i - 1, 0))} : DeepJoined(tr)

NextDeep == JoinDeep
SpecDeep == InitDeep /\ [][NextDeep]_vars

\* the join step s of the document d joins two pages, or two nodes that carry
\* the same origin (two nodes without origin counted as sharing one)
JoinOfFragments(d, s) ==
  \/ d[s.to].k = "page"
  \/ d[s.to].v = d[OpenOf(d, s.from + 1)].v

\* C32: every join of the deep join is one of two pages or of two adjacent
\* nodes that share an origin; where the two nodes at a level do not share
\* one, nothing is joined at that level or below it
C32_DeepJoinByOrigin ==
  last.kind = "joinDeep" =>
    \A k \in 1..Len(last.appended.steps) :
      JoinOfFragments(DocAt(k - 1), last.appended.steps[k])

\* ------------------------------------------------ the tag of the reconciler
\* C33: for a user edit with a step, the transaction that the reconciler
\* returns is tagged 'join' where the state it sees tracks a split, whether
\* or not it joins anything, and the pagination state is empty once the
\* transaction is applied; where no split is tracked the transaction it
\* returns carries no tag
C33_TaggedWhenTracked ==
  (last.kind \in UserKinds /\ last.tr.steps # <<>>) =>
    /\ last.appended.some
    /\ last.splitsMid # <<>> =>
         /\ last.appended.meta = "join"
         /\ splits = <<>>
    /\ last.splitsMid = <<>> => last.appended.meta = "none"

\* the reconciler saw a tracked split, joined nothing, and its transaction
\* emptied the pagination state
C33_Witness ==
  /\ last.kind \in UserKinds
  /\ last.splitsMid # <<>>
  /\ last.appended.some
  /\ last.appended.steps = <<>>
  /\ last.appended.meta = "join"
  /\ splits = <<>>

\* ---------------------------------------------------- the text is kept
\* C34: a split of the overflow pass leaves the text of the document as it
\* was before the split, and the joins that the reconciler appends to a user
\* edit leave the text as the user edit left it
C34_TextKept ==
  /\ last.kind = "split" => TextOf(doc) = TextOf(last.before)
  /\ (last.kind \in UserKinds /\ last.appended.some) => TextOf(doc) = TextOf(last.mid)

\* the reconciler joined two fragments that hold text
C34_Witness ==
  /\ last.kind \in UserKinds
  /\ last.appended.some
  /\ doc # last.mid
  /\ Len(TextOf(doc)) >= 3

\* ------------------------------------------------- the schema is respected
\* the page that opens at token i of d has a block
HasBlock(d, i) == \E j \in ParOpens(d) : i < j /\ j < CloseOf(d, i)

\* C35: in every state the document is one of the schema: its tokens nest as
\* doc = page+, page = block+, paragraph = inline*; it has a page and every
\* page has a block
C35_SchemaValid ==
  /\ WellFormed(doc)
  /\ PageCount(doc) >= 1
  /\ \A i \in PageOpens(doc) : HasBlock(doc, i)

\* the pass has split a page and the reconciler has joined the pages again
\* after a user edit
C35_Witness ==
  /\ last.kind \in UserKinds
  /\ last.appended.some
  /\ last.appended.steps # <<>>
  /\ PageCount(last.mid) >= 2
  /\ PageCount(doc) < PageCount(last.mid)

\* ------------------------------------------- several joins in one edit
\* the positions of the page boundaries of d
PageBoundaries(d) == {i - 1 : i \in PageOpens(d) \ {1}}

\* the step s, made after the steps before, joins at the place that the
\* position pos of the reconciler's document has come to
JoinsAtImage(s, before, pos) ==
  /\ s.ins = <<>>
  /\ s.from < MapPos(before, pos)
  /\ MapPos(before, pos) - s.from = s.to - MapPos(before, pos)

\* the reconciler's general case has run after an edit of the user
GeneralJoin ==
  /\ last.kind \in UserKinds \cup {"select"}
  /\ last.appended.some
  /\ PageCount(last.mid) >= PageCount(last.before)

\* C36: every join of a transaction of the reconciler, the second and later
\* ones included, is made at the place that a page boundary of the document
\* the reconciler started from has come to under the joins made before it
C36_JoinsAtMappedBoundaries ==
  GeneralJoin =>
    \A k \in 1..Len(last.appended.steps) :
      \E b \in PageBoundaries(last.mid) :
        JoinsAtImage(last.appended.steps[k], Prefix(k - 1), b)

\* ------------------------------------------------ tracked positions resolve
\* doc.resolve(pos) does not throw
Resolves(d, pos) == 0 <= pos /\ pos <= Len(d)

\* every position that the pagination state value tracks resolves in d
AllResolve(d, value) ==
  \A i \in 1..Len(value) :
    /\ Resolves(d, value[i].pos)
    /\ \A j \in 1..Len(value[i].connections) :
         /\ Resolves(d, value[i].connections[j].from)
         /\ Resolves(d, value[i].connections[j].to)

\* C37: the position of every tracked split and both ends of every tracked
\* connection are positions of the document of the same state, in the state
\* that the reconciler sees after a transaction and in the state that the
\* dispatch leaves
C37_PositionsValid ==
  /\ AllResolve(doc, splits)
  /\ AllResolve(last.mid, last.splitsMid)

\* a user edit has moved a tracked split with a connection
C37_Witness ==
  /\ last.kind \in UserKinds
  /\ last.splitsMid # <<>>
  /\ last.splitsMid # last.splitsBefore
  /\ last.splitsMid[1].connections # <<>>
  /\ Len(last.mid) < Len(last.before)

====
